---- MODULE Spec2Model ----
(***************************************************************************)
(* The template builder of Streamlineer (the Template component in         *)
(* frontend/src/components/Dashboard/Dashboard.js): the title-field list,  *)
(* the page list with each page's question list, and the drag state, with  *)
(* one action per event handler.  Array indices are 0-based as in the      *)
(* source; sequences are 1-based, so element idx of an array is s[idx+1].  *)
(* The account-creation form (the SignUp component) is modelled beside it, *)
(* and so are the template image upload and the Schedule component.        *)
(***************************************************************************)
EXTENDS Integers, Sequences, FiniteSets, TLC

VARIABLES titleFields, pages, draggedFieldIdx, draggedQuestion, now, op,
          form, errors, alert,
          templateImage, readers, imageInput,
          schedules, showCreateForm, newSchedule

\* The state of the SignUp component (LandingPage/LandingPage.js): the form,
\* the validation errors shown, and the alert raised by the last submission.
signUpVars == <<form, errors, alert>>

\* The image of the template: the data URL shown, the FileReaders whose load
\* is pending (the file each one reads, in the order they were started), and
\* the file held by the file input.
imageVars == <<templateImage, readers, imageInput>>

\* The state of the Schedule component: the schedules, whether the creation
\* form is shown, and the draft it edits.
scheduleVars == <<schedules, showCreateForm, newSchedule>>

vars == <<titleFields, pages, draggedFieldIdx, draggedQuestion, now, op, signUpVars,
          imageVars, scheduleVars>>

(* ---------------------------------------------------------------- bounds *)

\* Date.now() advances at most this many milliseconds during a run.
MaxTicks == 1
\* The add buttons are not pressed once a collection holds this many elements.
MaxFields == 4
MaxPages == 2
MaxQuestions == 2
\* No image is selected while this many FileReader loads are pending.
MaxReaders == 2
\* No schedule is created once the list holds this many schedules.
MaxSchedules == 3

(* ------------------------------------------------------------- JS values *)

\* JavaScript's null in draggedFieldIdx and draggedQuestion.
Null == -1

\* What `const [removed] = arr.splice(i, 1)` binds when nothing is removed:
\* undefined, which is then inserted as an array element.
UndefinedField == [id |-> 0, label |-> "undefined", type |-> "undefined"]
UndefinedQuestion == [id |-> 0, text |-> "undefined", type |-> "undefined"]
UndefinedPage == [id |-> 0, title |-> "undefined", questions |-> <<>>]

Min(a, b) == IF a < b THEN a ELSE b
Max(a, b) == IF a > b THEN a ELSE b

\* Array.prototype.splice clamps its start argument into 0..length.
SpliceStart(arr, start) ==
  IF start < 0 THEN Max(Len(arr) + start, 0) ELSE Min(start, Len(arr))

\* arr after arr.splice(start, 1).
SpliceOut(arr, start) ==
  LET a == SpliceStart(arr, start)
  IN  IF a < Len(arr)
      THEN SubSeq(arr, 1, a) \o SubSeq(arr, a + 2, Len(arr))
      ELSE arr

\* The first element of the array arr.splice(start, 1) returns.
SpliceRemoved(arr, start, undefined) ==
  LET a == SpliceStart(arr, start)
  IN  IF a < Len(arr) THEN arr[a + 1] ELSE undefined

\* arr after arr.splice(start, 0, item).
SpliceIn(arr, start, item) ==
  LET a == SpliceStart(arr, start)
  IN  SubSeq(arr, 1, a) \o <<item>> \o SubSeq(arr, a + 1, Len(arr))

\* arr.findIndex(x => x.id === id): the first 0-based index, or -1.
FindIndexOfId(arr, id) ==
  IF \E i \in 1..Len(arr) : arr[i].id = id
  THEN (CHOOSE i \in 1..Len(arr) : arr[i].id = id /\ \A j \in 1..(i - 1) : arr[j].id # id) - 1
  ELSE -1

(* ------------------------------------------------------- initial template *)

InitTitleFields ==
  << [id |-> 1, label |-> "Site conducte", type |-> "site"],
     [id |-> 2, label |-> "Conducted on", type |-> "date"],
     [id |-> 3, label |-> "Prepared by", type |-> "person"],
     [id |-> 4, label |-> "Location", type |-> "location"] >>

InitPages ==
  << [id |-> 1, title |-> "Untitled Page",
      questions |-> << [id |-> 1, text |-> "", type |-> "yesno"] >>] >>

NoDraggedQuestion == [pageId |-> Null, idx |-> Null]

\* Date.now() when the component mounts: a millisecond count far above every
\* id of the initial template.
Epoch == Len(InitTitleFields) + 1

\* The last event handled: the handler, the page id, element id and row index
\* it was given, the drag index it read (src), and its other arguments.
Call(name, pageId, id, idx, src, dir, key, value) ==
  [name |-> name, pageId |-> pageId, id |-> id, idx |-> idx, src |-> src,
   dir |-> dir, key |-> key, value |-> value]

NoOp == Call("mount", 0, 0, Null, Null, "", "", "")

\* The render maps every element to a row keyed by its id: an undefined element
\* throws there and the component unmounts, so no handler runs afterwards.
Renders ==
  /\ \A i \in 1..Len(titleFields) : titleFields[i] # UndefinedField
  /\ \A p \in 1..Len(pages) :
       /\ pages[p] # UndefinedPage
       /\ \A i \in 1..Len(pages[p].questions) : pages[p].questions[i] # UndefinedQuestion

(* ------------------------------------------------- title-field handlers *)

\* handleTitleFieldChange storing every value as the type.
handleTitleFieldChange_keyIgnored(fields, id, key, value) ==
  [i \in 1..Len(fields) |-> LET f == fields[i] IN IF f.id = id THEN [f EXCEPT !.type = value] ELSE f]

handleTitleFieldChange(fields, id, key, value) ==
  [i \in 1..Len(fields) |-> LET f == fields[i] IN IF f.id = id THEN [f EXCEPT ![key] = value] ELSE f]

\* addTitleField putting the new field first.
addTitleField_prepended(fields, dateNow) ==
  << [id |-> dateNow, label |-> "", type |-> "site"] >> \o fields

addTitleField(fields, dateNow) ==
  fields \o << [id |-> dateNow, label |-> "", type |-> "site"] >>

removeTitleField(fields, id) ==
  SelectSeq(fields, LAMBDA f : f.id # id)

\* moveTitleField without its bounds check.
moveTitleField_unchecked(fields, idx, direction) ==
  LET newIdx == IF direction = "up" THEN idx - 1 ELSE idx + 1
  IN  SpliceIn(SpliceOut(fields, idx), newIdx, SpliceRemoved(fields, idx, UndefinedField))

moveTitleField(fields, idx, direction) ==
  LET newIdx == IF direction = "up" THEN idx - 1 ELSE idx + 1
  IN  IF newIdx < 0 \/ newIdx >= Len(fields) THEN fields
      ELSE SpliceIn(SpliceOut(fields, idx), newIdx, SpliceRemoved(fields, idx, UndefinedField))

\* dropTitleField lowering the target index when the source lies before it.
dropTitleField_shifted(fields, dragged, idx) ==
  SpliceIn(SpliceOut(fields, dragged), IF dragged < idx THEN idx - 1 ELSE idx,
           SpliceRemoved(fields, dragged, UndefinedField))

\* The updater of handleTitleFieldDrop, run once the guard has passed.
dropTitleField(fields, dragged, idx) ==
  SpliceIn(SpliceOut(fields, dragged), idx, SpliceRemoved(fields, dragged, UndefinedField))

(* --------------------------------------------------------- page handlers *)

NewQuestion(id) == [id |-> id, text |-> "", type |-> "yesno"]

addPage(pgs, dateNow) ==
  pgs \o << [id |-> dateNow, title |-> "Untitled Page",
             questions |-> << NewQuestion(dateNow + 1) >>] >>

\* removePage without its length guard.
removePage_unguarded(pgs, id) ==
  SelectSeq(pgs, LAMBDA p : p.id # id)

removePage(pgs, id) ==
  IF Len(pgs) > 1 THEN SelectSeq(pgs, LAMBDA p : p.id # id) ELSE pgs

handlePageTitleChange(pgs, id, value) ==
  [i \in 1..Len(pgs) |-> LET p == pgs[i] IN IF p.id = id THEN [p EXCEPT !.title = value] ELSE p]

movePage(pgs, id, direction) ==
  LET idx == FindIndexOfId(pgs, id)
      newIdx == IF direction = "up" THEN idx - 1 ELSE idx + 1
  IN  IF idx < 0 THEN pgs
      ELSE IF newIdx < 0 \/ newIdx >= Len(pgs) THEN pgs
      ELSE SpliceIn(SpliceOut(pgs, idx), newIdx, SpliceRemoved(pgs, idx, UndefinedPage))

(* ----------------------------------------------------- question handlers *)

addQuestion(pgs, pageId, dateNow) ==
  [i \in 1..Len(pgs) |-> LET p == pgs[i] IN
    IF p.id = pageId
    THEN [p EXCEPT !.questions = p.questions \o << NewQuestion(dateNow) >>]
    ELSE p]

removeQuestion(pgs, pageId, qid) ==
  [i \in 1..Len(pgs) |-> LET p == pgs[i] IN
    IF p.id = pageId
    THEN [p EXCEPT !.questions =
            IF Len(p.questions) > 1
            THEN SelectSeq(p.questions, LAMBDA q : q.id # qid)
            ELSE p.questions]
    ELSE p]

\* handleQuestionChange editing every question of the page.
handleQuestionChange_everyQuestion(pgs, pageId, qid, key, value) ==
  [i \in 1..Len(pgs) |-> LET p == pgs[i] IN
    IF p.id = pageId
    THEN [p EXCEPT !.questions =
            [j \in 1..Len(p.questions) |-> [p.questions[j] EXCEPT ![key] = value]]]
    ELSE p]

handleQuestionChange(pgs, pageId, qid, key, value) ==
  [i \in 1..Len(pgs) |-> LET p == pgs[i] IN
    IF p.id = pageId
    THEN [p EXCEPT !.questions =
            [j \in 1..Len(p.questions) |-> LET q == p.questions[j] IN IF q.id = qid THEN [q EXCEPT ![key] = value] ELSE q]]
    ELSE p]

\* moveQuestion putting the removed question back at idx instead of newIdx.
moveQuestion_sameIndex(pgs, pageId, idx, direction) ==
  [i \in 1..Len(pgs) |-> LET p == pgs[i] IN
    IF p.id # pageId THEN p
    ELSE LET newIdx == IF direction = "up" THEN idx - 1 ELSE idx + 1
         IN  IF newIdx < 0 \/ newIdx >= Len(p.questions) THEN p
             ELSE [p EXCEPT !.questions =
                     SpliceIn(SpliceOut(p.questions, idx), idx,
                              SpliceRemoved(p.questions, idx, UndefinedQuestion))]]

\* moveQuestion moving up whatever the direction.
moveQuestion_alwaysUp(pgs, pageId, idx, direction) ==
  [i \in 1..Len(pgs) |-> LET p == pgs[i] IN
    IF p.id # pageId THEN p
    ELSE LET newIdx == idx - 1
         IN  IF newIdx < 0 \/ newIdx >= Len(p.questions) THEN p
             ELSE [p EXCEPT !.questions =
                     SpliceIn(SpliceOut(p.questions, idx), newIdx,
                              SpliceRemoved(p.questions, idx, UndefinedQuestion))]]

moveQuestion(pgs, pageId, idx, direction) ==
  [i \in 1..Len(pgs) |-> LET p == pgs[i] IN
    IF p.id # pageId THEN p
    ELSE LET newIdx == IF direction = "up" THEN idx - 1 ELSE idx + 1
         IN  IF newIdx < 0 \/ newIdx >= Len(p.questions) THEN p
             ELSE [p EXCEPT !.questions =
                     SpliceIn(SpliceOut(p.questions, idx), newIdx,
                              SpliceRemoved(p.questions, idx, UndefinedQuestion))]]

\* The updater of handleQuestionDrop, run once the guard has passed: the row
\* dropped on names the page, the drag state names the source index.
dropQuestion(pgs, dragged, pageId, idx) ==
  [i \in 1..Len(pgs) |-> LET p == pgs[i] IN
    IF p.id # pageId THEN p
    ELSE [p EXCEPT !.questions =
            SpliceIn(SpliceOut(p.questions, dragged.idx), idx,
                     SpliceRemoved(p.questions, dragged.idx, UndefinedQuestion))]]

(* --------------------------------------------------------- template image *)

\* The variables of the builder's lists and drags.
templateVars == <<titleFields, pages, draggedFieldIdx, draggedQuestion, now, op>>

\* useState(null) of templateImage, and e.target.files[0] of an empty FileList.
NullImage == <<>>
NoFile == [name |-> "undefined", type |-> "undefined", bytes |-> <<>>]

\* The image files the user picks: a name, a MIME type and the bytes.
ImageFiles ==
  {[name |-> "a.png", type |-> "image/png", bytes |-> <<137, 80, 78>>],
   [name |-> "b.jpg", type |-> "image/jpeg", bytes |-> <<255, 216>>],
   [name |-> "c.gif", type |-> "image/gif", bytes |-> <<71>>]}

Base64Alphabet ==
  <<"A", "B", "C", "D", "E", "F", "G", "H", "I", "J", "K", "L", "M", "N", "O", "P",
    "Q", "R", "S", "T", "U", "V", "W", "X", "Y", "Z", "a", "b", "c", "d", "e", "f",
    "g", "h", "i", "j", "k", "l", "m", "n", "o", "p", "q", "r", "s", "t", "u", "v",
    "w", "x", "y", "z", "0", "1", "2", "3", "4", "5", "6", "7", "8", "9", "+", "/">>

Base64Char(sextet) == Base64Alphabet[sextet + 1]

\* The four characters that encode a group of one, two or three bytes.
Base64Group(group) ==
  LET b1 == group[1]
      b2 == IF Len(group) >= 2 THEN group[2] ELSE 0
      b3 == IF Len(group) >= 3 THEN group[3] ELSE 0
      n == b1 * 65536 + b2 * 256 + b3
  IN  << Base64Char(n \div 262144),
         Base64Char((n \div 4096) % 64),
         IF Len(group) >= 2 THEN Base64Char((n \div 64) % 64) ELSE "=",
         IF Len(group) >= 3 THEN Base64Char(n % 64) ELSE "=" >>

RECURSIVE Base64(_)
Base64(bytes) ==
  IF Len(bytes) = 0 THEN <<>>
  ELSE Base64Group(SubSeq(bytes, 1, Min(3, Len(bytes)))) \o Base64(SubSeq(bytes, 4, Len(bytes)))

\* The result of reader.readAsDataURL(file).
DataURL(file) == <<"data:", file.type, ";base64,">> \o Base64(file.bytes)

InitImage ==
  /\ templateImage = NullImage
  /\ readers = <<>>
  /\ imageInput = NoFile

\* onChange of the file input: a FileReader is started on the file picked, if
\* any; its load completes later.
HandleImageChange ==
  /\ \E file \in ImageFiles \cup {NoFile} :
       /\ imageInput' = file
       /\ IF file # NoFile
          THEN /\ Len(readers) < MaxReaders
               /\ readers' = Append(readers, file)
          ELSE readers' = readers
  /\ UNCHANGED <<templateImage, templateVars, signUpVars, scheduleVars>>

\* reader.onload of one of the pending readers, whichever finishes first.
ReaderOnLoad ==
  /\ \E i \in 1..Len(readers) :
       /\ templateImage' = DataURL(readers[i])
       /\ readers' = SubSeq(readers, 1, i - 1) \o SubSeq(readers, i + 1, Len(readers))
  /\ UNCHANGED <<imageInput, templateVars, signUpVars, scheduleVars>>

(* ---------------------------------------------------------------- schedules *)

InitSchedules ==
  << [id |-> 1, templateName |-> "Safety Inspection Template",
      inspectorName |-> "John Smith", inspectorEmail |-> "john.smith@company.com",
      location |-> "Building A - Floor 3", scheduledDate |-> "2024-01-20",
      scheduledTime |-> "09:00", status |-> "scheduled", priority |-> "high",
      notes |-> "Focus on electrical safety and fire exits",
      createdBy |-> "Manager", createdAt |-> "2024-01-15"],
     [id |-> 2, templateName |-> "Equipment Maintenance Template",
      inspectorName |-> "Sarah Johnson", inspectorEmail |-> "sarah.johnson@company.com",
      location |-> "Warehouse B", scheduledDate |-> "2024-01-22",
      scheduledTime |-> "14:00", status |-> "in-progress", priority |-> "medium",
      notes |-> "Check all forklifts and lifting equipment",
      createdBy |-> "Manager", createdAt |-> "2024-01-16"] >>

InitNewSchedule ==
  [templateName |-> "", inspectorName |-> "", inspectorEmail |-> "", location |-> "",
   scheduledDate |-> "", scheduledTime |-> "", priority |-> "medium", notes |-> ""]

InitSchedule ==
  /\ schedules = InitSchedules
  /\ showCreateForm = FALSE
  /\ newSchedule = InitNewSchedule

availableTemplates ==
  <<"Safety Inspection Template", "Equipment Maintenance Template",
    "Fire Safety Template", "Environmental Compliance Template">>

availableInspectors ==
  << [name |-> "John Smith", email |-> "john.smith@company.com"],
     [name |-> "Sarah Johnson", email |-> "sarah.johnson@company.com"],
     [name |-> "Mike Davis", email |-> "mike.davis@company.com"],
     [name |-> "Lisa Wilson", email |-> "lisa.wilson@company.com"] >>

\* new Date().toISOString().split('T')[0] on the day of the run.
Today == "2024-02-01"

\* availableInspectors.find(i => i.name === name), then its email or ''.
InspectorEmail(name) ==
  IF \E i \in 1..Len(availableInspectors) : availableInspectors[i].name = name
  THEN availableInspectors[CHOOSE i \in 1..Len(availableInspectors) :
                             /\ availableInspectors[i].name = name
                             /\ \A j \in 1..(i - 1) : availableInspectors[j].name # name].email
  ELSE ""

\* The onChange updaters of the creation form's fields.
changeNewSchedule(draft, key, value) ==
  IF key = "inspectorName"
  THEN [draft EXCEPT !.inspectorName = value, !.inspectorEmail = InspectorEmail(value)]
  ELSE [draft EXCEPT ![key] = value]

\* The schedule handleCreateSchedule builds from the list it sees and the draft.
NewScheduleFrom(list, draft) ==
  [id |-> Len(list) + 1,
   templateName |-> draft.templateName, inspectorName |-> draft.inspectorName,
   inspectorEmail |-> draft.inspectorEmail, location |-> draft.location,
   scheduledDate |-> draft.scheduledDate, scheduledTime |-> draft.scheduledTime,
   priority |-> draft.priority, notes |-> draft.notes,
   status |-> "scheduled", createdBy |-> "Manager", createdAt |-> Today]

\* handleCreateSchedule putting the new schedule first.
createSchedule_prepended(list, draft) == <<NewScheduleFrom(list, draft)>> \o list

createSchedule(list, draft) == list \o <<NewScheduleFrom(list, draft)>>

\* updateScheduleStatus changing the status of every schedule.
updateScheduleStatus_everySchedule(list, id, newStatus) ==
  [i \in 1..Len(list) |-> [list[i] EXCEPT !.status = newStatus]]

updateScheduleStatus(list, id, newStatus) ==
  [i \in 1..Len(list) |-> LET schedule == list[i] IN
    IF schedule.id = id THEN [schedule EXCEPT !.status = newStatus] ELSE schedule]

\* What the user selects or types in the creation form, and the statuses
\* chosen in a card's select (the options at each key).
NewScheduleInputs ==
  [templateName |-> {"", availableTemplates[3]},
   inspectorName |-> {"", availableInspectors[3].name},
   location |-> {"Dock 4"},
   scheduledDate |-> {"2024-02-10"},
   scheduledTime |-> {"10:30"},
   priority |-> {"high"},
   notes |-> {"n"}]

StatusInputs == {"completed", "cancelled"}

\* The fields of the creation form marked required.
RequiredFields ==
  {"templateName", "inspectorName", "location", "scheduledDate", "scheduledTime", "priority"}

\* onClick of "Create New Schedule".
ShowCreateForm ==
  /\ showCreateForm' = TRUE
  /\ op' = Call("setShowCreateForm", 0, 0, Null, Null, "", "", "true")
  /\ UNCHANGED <<schedules, newSchedule, titleFields, pages, draggedFieldIdx, draggedQuestion,
                 now, signUpVars, imageVars>>

\* onClick of the form's close and cancel buttons.
CancelCreateForm ==
  /\ showCreateForm
  /\ showCreateForm' = FALSE
  /\ op' = Call("setShowCreateForm", 0, 0, Null, Null, "", "", "false")
  /\ UNCHANGED <<schedules, newSchedule, titleFields, pages, draggedFieldIdx, draggedQuestion,
                 now, signUpVars, imageVars>>

\* onChange of a field of the creation form.
ChangeNewSchedule ==
  /\ showCreateForm
  /\ \E key \in DOMAIN NewScheduleInputs : \E value \in NewScheduleInputs[key] :
       /\ newSchedule' = changeNewSchedule(newSchedule, key, value)
       /\ op' = Call("setNewSchedule", 0, 0, Null, Null, "", key, value)
  /\ UNCHANGED <<schedules, showCreateForm, titleFields, pages, draggedFieldIdx,
                 draggedQuestion, now, signUpVars, imageVars>>

\* onSubmit of the creation form, which the browser fires once every required
\* field is filled in.
HandleCreateSchedule ==
  /\ showCreateForm
  /\ \A key \in RequiredFields : newSchedule[key] # ""
  /\ Len(schedules) < MaxSchedules
  /\ schedules' = createSchedule(schedules, newSchedule)
  /\ newSchedule' = InitNewSchedule
  /\ showCreateForm' = FALSE
  /\ op' = Call("handleCreateSchedule", 0, Len(schedules) + 1, Null, Null, "", "", "")
  /\ UNCHANGED <<titleFields, pages, draggedFieldIdx, draggedQuestion, now, signUpVars,
                 imageVars>>

\* onChange of the status select of a schedule card.
UpdateScheduleStatus ==
  /\ \E k \in 0..(Len(schedules) - 1), newStatus \in StatusInputs :
       /\ schedules' = updateScheduleStatus(schedules, schedules[k + 1].id, newStatus)
       /\ op' = Call("updateScheduleStatus", 0, schedules[k + 1].id, k, Null, "", "status", newStatus)
  /\ UNCHANGED <<showCreateForm, newSchedule, titleFields, pages, draggedFieldIdx,
                 draggedQuestion, now, signUpVars, imageVars>>

(* ------------------------------------------------------- sign-up form *)

\* A string is the sequence of its characters.
EmptyString == <<>>

Whitespace == {" ", "\t", "\n", "\r"}

\* The characters \d matches.
DigitChars == {"0", "1", "2", "3", "4", "5", "6", "7", "8", "9"}

COUNTRY_OPTIONS == <<"+91", "+1", "+44", "+61", "+1">>

InitForm ==
  [email |-> EmptyString, firstName |-> EmptyString, lastName |-> EmptyString,
   country |-> COUNTRY_OPTIONS[1], phone |-> EmptyString, password |-> EmptyString,
   terms |-> FALSE, organization |-> EmptyString, location |-> EmptyString]

\* The errors object {} and the absence of an alert.
NoErrors == <<>>
NoAlert == <<>>

\* /^[^@\s]+@[^@\s]+\.[^@\s]+$/.test(str)
EmailPattern(str) ==
  \E i \in 2..Len(str) : \E j \in (i + 2)..(Len(str) - 1) :
    /\ str[i] = "@"
    /\ str[j] = "."
    /\ \A k \in (1..Len(str)) \ {i} : str[k] # "@" /\ str[k] \notin Whitespace

\* PhonePattern without the upper limit of 15 digits.
PhonePattern_unbounded(str) ==
  /\ Len(str) >= 6
  /\ \A k \in 1..Len(str) : str[k] \in DigitChars

\* /^\d{6,15}$/.test(str)
PhonePattern(str) ==
  /\ Len(str) >= 6
  /\ Len(str) <= 15
  /\ \A k \in 1..Len(str) : str[k] \in DigitChars

\* The message validate() stores under each key, "" where it stores none.
validateField(f, key) ==
  CASE key = "email" ->
         IF f.email = EmptyString THEN "Email is required."
         ELSE IF ~EmailPattern(f.email) THEN "Enter a valid email address."
         ELSE ""
    [] key = "firstName" -> IF f.firstName = EmptyString THEN "First name is required." ELSE ""
    [] key = "lastName" -> IF f.lastName = EmptyString THEN "Last name is required." ELSE ""
    [] key = "phone" ->
         IF f.phone = EmptyString THEN "Phone number is required."
         ELSE IF ~PhonePattern(f.phone)
              THEN "Enter a valid phone number (6-15 digits, no country code)."
         ELSE ""
    [] key = "password" ->
         IF f.password = EmptyString THEN "Password is required."
         ELSE IF Len(f.password) < 8 THEN "Password must be at least 8 characters."
         ELSE ""
    [] key = "terms" -> IF ~f.terms THEN "You must agree to the terms." ELSE ""
    [] key = "organization" -> IF f.organization = EmptyString THEN "Organization is required." ELSE ""
    [] key = "location" -> IF f.location = EmptyString THEN "Location is required." ELSE ""

ValidatedKeys ==
  {"email", "firstName", "lastName", "phone", "password", "terms", "organization", "location"}

\* validate(): the object holding a message for each field that fails.
validate(f) ==
  [key \in {k \in ValidatedKeys : validateField(f, k) # ""} |-> validateField(f, key)]

\* What is typed or selected in the form.
EmailInputs ==
  {EmptyString,
   <<"a", "@", "b", ".", "c">>,
   <<"a", ".", "b", "@", "c", ".", "d", ".", "e">>,
   <<"a", "b">>,
   <<"a", "@", "b">>,
   <<"a", " ", "@", "b", ".", "c">>,
   <<"a", "@", "@", "b", ".", "c">>,
   <<"@", "b", ".", "c">>,
   <<"a", "@", ".", "c">>,
   <<"a", "@", "b", ".">>}
NameInputs == {EmptyString, <<"x">>}
PhoneInputs ==
  {EmptyString,
   <<"1", "2", "3", "4", "5", "6">>,
   <<"1", "2", "3">>,
   <<"1", "2", "3", "4", "5", "x">>,
   <<"1", "2", "3", "4", "5", "6", "7", "8", "9", "0", "1", "2", "3", "4", "5", "6">>}
PasswordInputs ==
  {EmptyString,
   <<"A", "a", "1">>,
   <<"a", "a", "a", "a", "a", "a", "a">>,
   <<"a", "a", "a", "a", "a", "a", "a", "a">>,
   <<"A", "a", "1", "a", "a", "a", "a", "a">>}

\* The forms handleChange builds from the inputs above.
Forms ==
  [email : EmailInputs, firstName : NameInputs, lastName : NameInputs,
   country : {COUNTRY_OPTIONS[i] : i \in 1..Len(COUNTRY_OPTIONS)}, phone : PhoneInputs,
   password : PasswordInputs, terms : BOOLEAN, organization : NameInputs,
   location : NameInputs]

\* onSubmit of the form: the errors are shown, and the account is announced as
\* created when there are none.
HandleSubmit ==
  /\ errors' = validate(form)
  /\ alert' = IF DOMAIN validate(form) = {}
              THEN <<"Account created successfully!", form.country, form.phone>>
              ELSE NoAlert
  /\ UNCHANGED <<form, titleFields, pages, draggedFieldIdx, draggedQuestion, now, op,
               imageVars, scheduleVars>>

\* The form as filled in when it is submitted.
InitSignUp ==
  /\ titleFields = InitTitleFields
  /\ pages = InitPages
  /\ draggedFieldIdx = Null
  /\ draggedQuestion = NoDraggedQuestion
  /\ now = Epoch
  /\ op = NoOp
  /\ form \in Forms
  /\ errors = NoErrors
  /\ alert = NoAlert
  /\ InitImage
  /\ InitSchedule

NextSignUp == HandleSubmit

SpecSignUp == InitSignUp /\ [][NextSignUp]_vars

(* ------------------------------------------------------------------ state *)

Init ==
  /\ titleFields = InitTitleFields
  /\ pages = InitPages
  /\ draggedFieldIdx = Null
  /\ draggedQuestion = NoDraggedQuestion
  /\ now = Epoch
  /\ op = NoOp
  /\ form = InitForm
  /\ errors = NoErrors
  /\ alert = NoAlert
  /\ InitImage
  /\ InitSchedule

\* A millisecond passes between two events.
Tick ==
  /\ now < Epoch + MaxTicks
  /\ now' = now + 1
  /\ op' = Call("tick", 0, 0, Null, Null, "", "", "")
  /\ UNCHANGED <<titleFields, pages, draggedFieldIdx, draggedQuestion, signUpVars, imageVars, scheduleVars>>

\* The values typed into a label, a question text or a page title.
TextInputs == {"x"}

\* The options of the title-field type select and of the question type select.
RESPONSE_TYPES == <<"site", "date", "person", "location", "text", "number", "yesno">>

TitleTypeOptions ==
  {RESPONSE_TYPES[i] : i \in {j \in 1..Len(RESPONSE_TYPES) :
      RESPONSE_TYPES[j] \in {"site", "date", "person", "location", "text", "number"}}}

QuestionTypeOptions == {RESPONSE_TYPES[i] : i \in 1..Len(RESPONSE_TYPES)}

\* The rows the render shows, by 0-based index.
TitleRows == 0..(Len(titleFields) - 1)
PageRows == 0..(Len(pages) - 1)
QuestionRows(pageIdx) == 0..(Len(pages[pageIdx + 1].questions) - 1)

\* A handler runs while the component is mounted.  With ui it is fired by the
\* rendered control, which a disabled attribute may silence; without ui it is
\* called once, directly, on the state it is given.
Ready(ui) == Renders /\ (ui \/ op = NoOp)

(* ---------------------------------------------------- title-field events *)

\* onChange of a row's label input or type select.
HandleTitleFieldChange(ui) ==
  /\ Ready(ui)
  /\ \E idx \in TitleRows, key \in {"label", "type"} :
       \E value \in (IF key = "label" THEN TextInputs ELSE TitleTypeOptions) :
         /\ titleFields' = handleTitleFieldChange(titleFields, titleFields[idx + 1].id, key, value)
         /\ op' = Call("handleTitleFieldChange", 0, titleFields[idx + 1].id, idx, Null, "", key, value)
  /\ UNCHANGED <<pages, draggedFieldIdx, draggedQuestion, now, signUpVars, imageVars, scheduleVars>>

\* onClick of "+ Add new" under the title fields.
AddTitleField(ui) ==
  /\ Ready(ui)
  /\ Len(titleFields) < MaxFields
  /\ titleFields' = addTitleField(titleFields, now)
  /\ op' = Call("addTitleField", 0, now, Null, Null, "", "", "")
  /\ UNCHANGED <<pages, draggedFieldIdx, draggedQuestion, now, signUpVars, imageVars, scheduleVars>>

\* onClick of a row's remove button, which is disabled while one field is left.
RemoveTitleField(ui) ==
  /\ Ready(ui)
  /\ \E idx \in TitleRows :
       /\ ui => ~(Len(titleFields) <= 1)
       /\ titleFields' = removeTitleField(titleFields, titleFields[idx + 1].id)
       /\ op' = Call("removeTitleField", 0, titleFields[idx + 1].id, idx, Null, "", "", "")
  /\ UNCHANGED <<pages, draggedFieldIdx, draggedQuestion, now, signUpVars, imageVars, scheduleVars>>

\* onClick of a row's move button: up is disabled on the first row, down on the
\* last one.
MoveTitleField(ui) ==
  /\ Ready(ui)
  /\ \E idx \in TitleRows, direction \in {"up", "down"} :
       /\ ui => ~(IF direction = "up" THEN idx = 0 ELSE idx = Len(titleFields) - 1)
       /\ titleFields' = moveTitleField(titleFields, idx, direction)
       /\ op' = Call("moveTitleField", 0, titleFields[idx + 1].id, idx, Null, direction, "", "")
  /\ UNCHANGED <<pages, draggedFieldIdx, draggedQuestion, now, signUpVars, imageVars, scheduleVars>>

\* onDragStart of a row.
HandleTitleFieldDragStart(ui) ==
  /\ Ready(ui)
  /\ \E idx \in TitleRows :
       /\ draggedFieldIdx' = idx
       /\ op' = Call("handleTitleFieldDragStart", 0, titleFields[idx + 1].id, idx, Null, "", "", "")
  /\ UNCHANGED <<titleFields, pages, draggedQuestion, now, signUpVars, imageVars, scheduleVars>>

\* HandleTitleFieldDrop without the test of draggedFieldIdx against null.
HandleTitleFieldDrop_nullNotChecked(ui) ==
  /\ Ready(ui)
  /\ \E idx \in TitleRows :
       /\ op' = Call("handleTitleFieldDrop", 0, titleFields[idx + 1].id, idx, draggedFieldIdx, "", "", "")
       /\ IF draggedFieldIdx = idx
          THEN UNCHANGED <<titleFields, draggedFieldIdx>>
          ELSE /\ titleFields' = dropTitleField(titleFields, draggedFieldIdx, idx)
               /\ draggedFieldIdx' = Null
  /\ UNCHANGED <<pages, draggedQuestion, now, signUpVars, imageVars, scheduleVars>>

\* onDrop of a row: fired by whatever is dropped on the row, whether or not
\* the drag began on a title-field row.
HandleTitleFieldDrop(ui) ==
  /\ Ready(ui)
  /\ \E idx \in TitleRows :
       /\ op' = Call("handleTitleFieldDrop", 0, titleFields[idx + 1].id, idx, draggedFieldIdx, "", "", "")
       /\ IF draggedFieldIdx = Null \/ draggedFieldIdx = idx
          THEN UNCHANGED <<titleFields, draggedFieldIdx>>
          ELSE /\ titleFields' = dropTitleField(titleFields, draggedFieldIdx, idx)
               /\ draggedFieldIdx' = Null
  /\ UNCHANGED <<pages, draggedQuestion, now, signUpVars, imageVars, scheduleVars>>

(* ------------------------------------------------------------ page events *)

\* onClick of "+ Add Page".
AddPage(ui) ==
  /\ Ready(ui)
  /\ Len(pages) < MaxPages
  /\ pages' = addPage(pages, now)
  /\ op' = Call("addPage", now, now, Null, Null, "", "", "")
  /\ UNCHANGED <<titleFields, draggedFieldIdx, draggedQuestion, now, signUpVars, imageVars, scheduleVars>>

\* onClick of a page's remove button, which is disabled while one page is left.
RemovePage(ui) ==
  /\ Ready(ui)
  /\ \E pageIdx \in PageRows :
       /\ ui => ~(Len(pages) <= 1)
       /\ pages' = removePage(pages, pages[pageIdx + 1].id)
       /\ op' = Call("removePage", pages[pageIdx + 1].id, pages[pageIdx + 1].id, pageIdx,
                    Null, "", "", "")
  /\ UNCHANGED <<titleFields, draggedFieldIdx, draggedQuestion, now, signUpVars, imageVars, scheduleVars>>

\* onChange of a page's title input.
HandlePageTitleChange(ui) ==
  /\ Ready(ui)
  /\ \E pageIdx \in PageRows, value \in TextInputs :
       /\ pages' = handlePageTitleChange(pages, pages[pageIdx + 1].id, value)
       /\ op' = Call("handlePageTitleChange", pages[pageIdx + 1].id, pages[pageIdx + 1].id, pageIdx,
                    Null, "", "title", value)
  /\ UNCHANGED <<titleFields, draggedFieldIdx, draggedQuestion, now, signUpVars, imageVars, scheduleVars>>

\* onClick of a page's move button: up is disabled on the first page, down on
\* the last one.
MovePage(ui) ==
  /\ Ready(ui)
  /\ \E pageIdx \in PageRows, direction \in {"up", "down"} :
       /\ ui => ~(IF direction = "up" THEN pageIdx = 0 ELSE pageIdx = Len(pages) - 1)
       /\ pages' = movePage(pages, pages[pageIdx + 1].id, direction)
       /\ op' = Call("movePage", pages[pageIdx + 1].id, pages[pageIdx + 1].id, pageIdx,
                    Null, direction, "", "")
  /\ UNCHANGED <<titleFields, draggedFieldIdx, draggedQuestion, now, signUpVars, imageVars, scheduleVars>>

(* -------------------------------------------------------- question events *)

\* onClick of "+ Add new" under a page's questions.
AddQuestion(ui) ==
  /\ Ready(ui)
  /\ \E pageIdx \in PageRows :
       /\ Len(pages[pageIdx + 1].questions) < MaxQuestions
       /\ pages' = addQuestion(pages, pages[pageIdx + 1].id, now)
       /\ op' = Call("addQuestion", pages[pageIdx + 1].id, now, Null, Null, "", "", "")
  /\ UNCHANGED <<titleFields, draggedFieldIdx, draggedQuestion, now, signUpVars, imageVars, scheduleVars>>

\* onClick of a question's remove button, which is disabled while the page has
\* one question left.
RemoveQuestion(ui) ==
  /\ Ready(ui)
  /\ \E pageIdx \in PageRows :
       \E idx \in QuestionRows(pageIdx) :
         LET page == pages[pageIdx + 1]
         IN  /\ ui => ~(Len(page.questions) <= 1)
             /\ pages' = removeQuestion(pages, page.id, page.questions[idx + 1].id)
             /\ op' = Call("removeQuestion", page.id, page.questions[idx + 1].id, idx, Null, "", "", "")
  /\ UNCHANGED <<titleFields, draggedFieldIdx, draggedQuestion, now, signUpVars, imageVars, scheduleVars>>

\* onChange of a question's text input or type select.
HandleQuestionChange(ui) ==
  /\ Ready(ui)
  /\ \E pageIdx \in PageRows, key \in {"text", "type"} :
       \E idx \in QuestionRows(pageIdx) :
         \E value \in (IF key = "text" THEN TextInputs ELSE QuestionTypeOptions) :
           LET page == pages[pageIdx + 1]
           IN  /\ pages' = handleQuestionChange(pages, page.id, page.questions[idx + 1].id,
                                                 key, value)
               /\ op' = Call("handleQuestionChange", page.id, page.questions[idx + 1].id, idx,
                    Null, "", key, value)
  /\ UNCHANGED <<titleFields, draggedFieldIdx, draggedQuestion, now, signUpVars, imageVars, scheduleVars>>

\* onClick of a question's move button: up is disabled on the first row, down
\* on the last one.
MoveQuestion(ui) ==
  /\ Ready(ui)
  /\ \E pageIdx \in PageRows, direction \in {"up", "down"} :
       \E idx \in QuestionRows(pageIdx) :
         LET page == pages[pageIdx + 1]
         IN  /\ ui => ~(IF direction = "up" THEN idx = 0 ELSE idx = Len(page.questions) - 1)
             /\ pages' = moveQuestion(pages, page.id, idx, direction)
             /\ op' = Call("moveQuestion", page.id, page.questions[idx + 1].id, idx,
                    Null, direction, "", "")
  /\ UNCHANGED <<titleFields, draggedFieldIdx, draggedQuestion, now, signUpVars, imageVars, scheduleVars>>

\* onDragStart of a question row.
HandleQuestionDragStart(ui) ==
  /\ Ready(ui)
  /\ \E pageIdx \in PageRows :
       \E idx \in QuestionRows(pageIdx) :
         LET page == pages[pageIdx + 1]
         IN  /\ draggedQuestion' = [pageId |-> page.id, idx |-> idx]
             /\ op' = Call("handleQuestionDragStart", page.id, page.questions[idx + 1].id, idx, Null, "", "", "")
  /\ UNCHANGED <<titleFields, pages, draggedFieldIdx, now, signUpVars, imageVars, scheduleVars>>

\* onDrop of a question row: fired by whatever is dropped on the row.
HandleQuestionDrop(ui) ==
  /\ Ready(ui)
  /\ \E pageIdx \in PageRows :
       \E idx \in QuestionRows(pageIdx) :
         LET page == pages[pageIdx + 1]
         IN  /\ op' = Call("handleQuestionDrop", page.id, page.questions[idx + 1].id, idx,
                    draggedQuestion.idx, "", "", "")
             /\ IF draggedQuestion.pageId = Null \/ draggedQuestion.idx = Null
                THEN UNCHANGED <<pages, draggedQuestion>>
                ELSE /\ pages' = dropQuestion(pages, draggedQuestion, page.id, idx)
                     /\ draggedQuestion' = NoDraggedQuestion
  /\ UNCHANGED <<titleFields, draggedFieldIdx, now, signUpVars, imageVars, scheduleVars>>

(* --------------------------------------------------------- specifications *)

NextTitle ==
  \/ Tick
  \/ AddTitleField(TRUE)
  \/ RemoveTitleField(TRUE)
  \/ MoveTitleField(TRUE)
  \/ HandleTitleFieldDragStart(TRUE)
  \/ HandleTitleFieldDrop(TRUE)

\* The user works in the title-page section of the builder.
SpecTitle == Init /\ [][NextTitle]_vars

NextPages ==
  \/ Tick
  \/ AddPage(TRUE)
  \/ RemovePage(TRUE)
  \/ MovePage(TRUE)
  \/ AddQuestion(TRUE)
  \/ RemoveQuestion(TRUE)
  \/ MoveQuestion(TRUE)
  \/ HandleQuestionDragStart(TRUE)
  \/ HandleQuestionDrop(TRUE)

\* The user works in the pages section of the builder.
SpecPages == Init /\ [][NextPages]_vars

NextDrag ==
  \/ AddQuestion(TRUE)
  \/ HandleTitleFieldDragStart(TRUE)
  \/ HandleTitleFieldDrop(TRUE)
  \/ HandleQuestionDragStart(TRUE)
  \/ HandleQuestionDrop(TRUE)

\* The user drags rows of both sections: a drag begun on any row can be
\* dropped on any row, or abandoned without a drop.
SpecDrag == Init /\ [][NextDrag]_vars

NextImage ==
  \/ HandleImageChange
  \/ ReaderOnLoad

\* The user picks template images; the reads complete in any order.
SpecImage == Init /\ [][NextImage]_vars

NextSchedule ==
  \/ ShowCreateForm
  \/ CancelCreateForm
  \/ ChangeNewSchedule
  \/ HandleCreateSchedule
  \/ UpdateScheduleStatus

\* The manager creates schedules and updates their statuses.
SpecSchedule == Init /\ [][NextSchedule]_vars

(* --------------------------------------------- handlers called directly *)

SeqsUpTo(S, n) == UNION {[1..k -> S] : k \in 1..n}

Occurrences(seq, x) == Cardinality({i \in 1..Len(seq) : seq[i] = x})

\* Title-field lists the builder reaches, up to the size of the initial list:
\* initial fields, each at most once and in any order, among fields added by
\* addTitleField (several in one millisecond are equal).
CallTitleFields ==
  LET added == addTitleField(<<>>, Epoch)[1]
      pool == {InitTitleFields[i] : i \in 1..Len(InitTitleFields)} \cup {added}
  IN  {s \in SeqsUpTo(pool, Len(InitTitleFields)) :
         \A i \in 1..Len(InitTitleFields) : Occurrences(s, InitTitleFields[i]) <= 1}

\* Question lists a page reaches: the question it was created with, at most
\* once, among questions added by addQuestion.
CallQuestions(first) ==
  {s \in SeqsUpTo({NewQuestion(first), NewQuestion(Epoch + 2)}, MaxQuestions) :
     Occurrences(s, NewQuestion(first)) <= 1}

\* Pages the builder reaches: the initial page, and pages added by addPage
\* (several in one millisecond carry one id), each with its own questions.
CallPage ==
  LET added == addPage(<<>>, Epoch)[1]
  IN  {[InitPages[1] EXCEPT !.questions = qs] :
         qs \in CallQuestions(InitPages[1].questions[1].id)}
      \cup {[added EXCEPT !.questions = qs] : qs \in CallQuestions(added.questions[1].id)}

\* Page lists the builder reaches: the initial page at most once.
CallPages ==
  {s \in SeqsUpTo(CallPage, MaxPages) :
     Cardinality({i \in 1..Len(s) : s[i].id = InitPages[1].id}) <= 1}

\* The state a handler is called on: a title-field list with any drag index
\* left behind, or a page list with any question drag left behind.
InitCall ==
  /\ now = Epoch + 2
  /\ op = NoOp
  /\ form = InitForm
  /\ errors = NoErrors
  /\ alert = NoAlert
  /\ InitImage
  /\ InitSchedule
  /\ \/ /\ titleFields \in CallTitleFields
        /\ draggedFieldIdx \in {Null} \cup (0..(Len(InitTitleFields) - 1))
        /\ pages = InitPages
        /\ draggedQuestion = NoDraggedQuestion
     \/ /\ titleFields = InitTitleFields
        /\ draggedFieldIdx = Null
        /\ pages \in CallPages
        /\ draggedQuestion \in {NoDraggedQuestion} \cup
             [pageId : {InitPages[1].id, Epoch}, idx : 0..(MaxQuestions - 1)]

NextCall ==
  \/ AddTitleField(FALSE)
  \/ RemoveTitleField(FALSE)
  \/ MoveTitleField(FALSE)
  \/ HandleTitleFieldDragStart(FALSE)
  \/ HandleTitleFieldDrop(FALSE)
  \/ AddPage(FALSE)
  \/ RemovePage(FALSE)
  \/ MovePage(FALSE)
  \/ AddQuestion(FALSE)
  \/ RemoveQuestion(FALSE)
  \/ MoveQuestion(FALSE)
  \/ HandleQuestionDragStart(FALSE)
  \/ HandleQuestionDrop(FALSE)

\* One structural handler (add, remove, move, drag, drop) is called once,
\* whether or not its control is enabled.
SpecCall == InitCall /\ [][NextCall]_vars

NextEdit ==
  \/ HandleTitleFieldChange(FALSE)
  \/ HandlePageTitleChange(FALSE)
  \/ HandleQuestionChange(FALSE)

\* One editing handler (label, text, title, type) is called once.
SpecEdit == InitCall /\ [][NextEdit]_vars

(* ------------------------------------------ handlers called on typed rows *)

\* The first k initial title fields, each with any type its select offers.
TypedTitleFields ==
  UNION {{[i \in 1..k |-> [InitTitleFields[i] EXCEPT !.type = types[i]]] :
            types \in [1..k -> TitleTypeOptions]} : k \in 1..Len(InitTitleFields)}

\* The initial page, its question with any type its select offers.
TypedPages ==
  {<<[InitPages[1] EXCEPT !.questions = <<[InitPages[1].questions[1] EXCEPT !.type = type]>>]>> :
     type \in QuestionTypeOptions}

\* The state a handler is called on after the user has chosen types.
InitTypes ==
  /\ now = Epoch
  /\ op = NoOp
  /\ form = InitForm
  /\ errors = NoErrors
  /\ alert = NoAlert
  /\ InitImage
  /\ InitSchedule
  /\ draggedFieldIdx = Null
  /\ draggedQuestion = NoDraggedQuestion
  /\ \/ titleFields \in TypedTitleFields /\ pages = InitPages
     \/ titleFields = InitTitleFields /\ pages \in TypedPages

NextTypes ==
  \/ HandleTitleFieldChange(FALSE)
  \/ AddTitleField(FALSE)
  \/ HandleQuestionChange(FALSE)
  \/ AddQuestion(FALSE)
  \/ AddPage(FALSE)

\* One handler that writes a type (an edit through a select, or an add) is
\* called once.
SpecTypes == InitTypes /\ [][NextTypes]_vars

(* ------------------------------------------------------------- properties *)

\* The ids of a collection, in order.
Ids(arr) == [i \in 1..Len(arr) |-> arr[i].id]

PairwiseDistinct(seq) == \A i, j \in 1..Len(seq) : i # j => seq[i] # seq[j]

\* seq without its element at 0-based index i.
Without(seq, i) == SubSeq(seq, 1, i) \o SubSeq(seq, i + 2, Len(seq))

\* seq with the elements at 0-based indices i and j exchanged.
Exchanged(seq, i, j) ==
  [k \in 1..Len(seq) |-> IF k = i + 1 THEN seq[j + 1] ELSE IF k = j + 1 THEN seq[i + 1] ELSE seq[k]]

SameMultiset(a, b) ==
  /\ Len(a) = Len(b)
  /\ \A i \in 1..Len(a) : Occurrences(a, a[i]) = Occurrences(b, a[i])

\* The pages a handler given pageId works on.
PagesWithId(pageId) == {p \in 1..Len(pages) : pages[p].id = pageId}

\* C1: in every reachable state the page list holds at least one page and
\* every page's question list holds at least one question.
C1_MinimumCardinality ==
  /\ Len(pages) >= 1
  /\ \A p \in 1..Len(pages) :
       \E i \in 1..Len(pages[p].questions) : pages[p].questions[i] # UndefinedQuestion

\* C2: in every reachable state the ids of the title fields are pairwise
\* distinct, so are the ids of the pages, and so are the ids of the questions
\* of each page; hence no add assigns an id that is live in its collection.
C2_UniqueIds ==
  /\ PairwiseDistinct(Ids(titleFields))
  /\ PairwiseDistinct(Ids(pages))
  /\ \A p \in 1..Len(pages) : PairwiseDistinct(Ids(pages[p].questions))

\* C3: a drop whose captured source index is out of the collection's bounds,
\* the collection having shrunk since dragstart, cancels the reorder and leaves
\* the collection unchanged.
C3_StaleDropCancelled ==
  [][ /\ (op'.name = "handleTitleFieldDrop" /\ op'.src # Null /\ op'.src >= Len(titleFields))
         => titleFields' = titleFields
      /\ (op'.name = "handleQuestionDrop" /\ op'.src # Null /\ draggedQuestion.pageId = op'.pageId)
         => \A p \in PagesWithId(op'.pageId) :
              op'.src >= Len(pages[p].questions) => pages'[p] = pages[p] ]_vars

\* C4: removeQuestion on a page with exactly one question, and removePage on a
\* page list with exactly one page, leave the collection unchanged, whatever id
\* they are given.
C4_RemoveLastIgnored ==
  [][ /\ (op'.name = "removePage" /\ Len(pages) = 1)
         => /\ pages' = pages
            /\ \A id \in 0..(now + 1) : removePage(pages, id) = pages
      /\ op'.name = "removeQuestion"
         => \A p \in PagesWithId(op'.pageId) :
              Len(pages[p].questions) = 1
              => /\ pages'[p] = pages[p]
                 /\ \A qid \in 0..(now + 1) :
                      removeQuestion(pages, op'.pageId, qid)[p] = pages[p] ]_vars

\* removePage was called on the only page, which is still there.
C4_Witness ==
  /\ op.name = "removePage"
  /\ Len(pages) = 1
  /\ pages[1].id = op.id

\* C5: removePage and removeQuestion on a collection of more than one element
\* shorten it by exactly one, removing the element whose id was given (the
\* row clicked) and keeping the others in their order.
C5_RemoveExactlyOne ==
  [][ /\ (op'.name = "removePage" /\ Len(pages) > 1)
         => /\ Len(pages') = Len(pages) - 1
            /\ pages' = Without(pages, op'.idx)
      /\ op'.name = "removeQuestion"
         => \A p \in PagesWithId(op'.pageId) :
              Len(pages[p].questions) > 1
              => /\ Len(pages'[p].questions) = Len(pages[p].questions) - 1
                 /\ pages'[p].questions = Without(pages[p].questions, op'.idx) ]_vars

\* C6: the title-field collection never becomes empty.
C6_TitleFieldsNeverEmpty == Len(titleFields) >= 1

\* A step move at 0-based index i of a collection of n elements would leave it.
OutOfBounds(i, direction, n) ==
  \/ i = 0 /\ direction = "up"
  \/ i = n - 1 /\ direction = "down"

Neighbour(i, direction) == IF direction = "up" THEN i - 1 ELSE i + 1

ValidIndex(i, n) == 0 <= i /\ i < n

\* A step move at 0-based index i of a collection of n elements stays in it.
InBounds(i, direction, n) == ValidIndex(i, n) /\ ValidIndex(Neighbour(i, direction), n)

\* The index movePage works at: that of the first page with the id it is given.
IndexOfPage(pgs, id) == (CHOOSE k \in 1..Len(pgs) : pgs[k].id = id /\ \A j \in 1..(k - 1) : pgs[j].id # id) - 1

\* C7: a step move from index 0 up, or from the last index down, returns the
\* collection unchanged: moveTitleField, moveQuestion and movePage alike,
\* called whether or not their button is enabled.
C7_MoveOutOfBoundsIgnored ==
  [][ /\ (op'.name = "moveTitleField" /\ OutOfBounds(op'.idx, op'.dir, Len(titleFields)))
         => titleFields' = titleFields
      /\ op'.name = "moveQuestion"
         => \A p \in PagesWithId(op'.pageId) :
              OutOfBounds(op'.idx, op'.dir, Len(pages[p].questions)) => pages'[p] = pages[p]
      /\ (op'.name = "movePage" /\ OutOfBounds(IndexOfPage(pages, op'.id), op'.dir, Len(pages)))
         => pages' = pages ]_vars

\* moveTitleField was called on the first row with "up".
C7_Witness ==
  /\ op.name = "moveTitleField"
  /\ op.idx = 0
  /\ op.dir = "up"
  /\ Len(titleFields) > 1

\* C8: an in-bounds step move exchanges the element at the index with its
\* neighbour in the direction given and leaves every other element where it
\* was: moveTitleField, moveQuestion and movePage alike.
C8_MoveExchangesNeighbours ==
  [][ /\ (op'.name = "moveTitleField" /\ InBounds(op'.idx, op'.dir, Len(titleFields)))
         => titleFields' = Exchanged(titleFields, op'.idx, Neighbour(op'.idx, op'.dir))
      /\ op'.name = "moveQuestion"
         => \A p \in PagesWithId(op'.pageId) :
              InBounds(op'.idx, op'.dir, Len(pages[p].questions))
              => pages'[p].questions =
                   Exchanged(pages[p].questions, op'.idx, Neighbour(op'.idx, op'.dir))
      /\ (op'.name = "movePage" /\ InBounds(IndexOfPage(pages, op'.id), op'.dir, Len(pages)))
         => pages' = Exchanged(pages, IndexOfPage(pages, op'.id),
                               Neighbour(IndexOfPage(pages, op'.id), op'.dir)) ]_vars

\* Title fields [site, date, person, location] after moveTitleField(0, down):
\* [date, site, person, location].
C8_Witness ==
  /\ op.name = "moveTitleField"
  /\ op.idx = 0
  /\ op.dir = "down"
  /\ Ids(titleFields) = <<2, 1, 3, 4>>
  /\ [i \in 1..Len(titleFields) |-> titleFields[i].type] = <<"date", "site", "person", "location">>

\* C9: a step move up from a valid index i > 0, followed by a step move down
\* from i - 1, gives the original collection back; at i = 0 the move up leaves
\* the collection unchanged.
C9_MoveUpThenDownRestores ==
  [][ /\ (op'.name = "moveTitleField" /\ op'.dir = "up")
         => IF op'.idx > 0
            THEN moveTitleField(titleFields', op'.idx - 1, "down") = titleFields
            ELSE titleFields' = titleFields
      /\ (op'.name = "moveQuestion" /\ op'.dir = "up")
         => \A p \in PagesWithId(op'.pageId) :
              ValidIndex(op'.idx, Len(pages[p].questions))
              => IF op'.idx > 0
                 THEN moveQuestion(pages', op'.pageId, op'.idx - 1, "down")[p] = pages[p]
                 ELSE pages'[p] = pages[p]
      /\ (op'.name = "movePage" /\ op'.dir = "up")
         => IF IndexOfPage(pages, op'.id) > 0
            THEN movePage(pages', op'.id, "down") = pages
            ELSE pages' = pages ]_vars

\* moveQuestion moved a question up from an index above 0.
C9_Witness ==
  /\ op.name = "moveQuestion"
  /\ op.dir = "up"
  /\ op.idx > 0
  /\ \E p \in PagesWithId(op.pageId) : pages[p].questions[op.idx].id = op.id

\* C10: a drop on a row of the collection with the source index equal to the
\* target index leaves the collection unchanged; with two different indices
\* within its bounds it keeps the multiset of elements, puts the element that
\* was at the source index at the target index and keeps the other elements in
\* their order (title-field drop and question drop).
C10_DropMovesSourceToTarget ==
  [][ /\ op'.name = "handleTitleFieldDrop"
         => /\ op'.src = op'.idx => titleFields' = titleFields
            /\ (ValidIndex(op'.src, Len(titleFields)) /\ ValidIndex(op'.idx, Len(titleFields))
                /\ op'.src # op'.idx)
               => /\ SameMultiset(titleFields', titleFields)
                  /\ titleFields'[op'.idx + 1] = titleFields[op'.src + 1]
                  /\ Without(titleFields', op'.idx) = Without(titleFields, op'.src)
      /\ (op'.name = "handleQuestionDrop" /\ draggedQuestion.pageId # Null /\ op'.src # Null)
         => \A p \in PagesWithId(op'.pageId) :
              LET qs == pages[p].questions
                  qs2 == pages'[p].questions
              IN  /\ (ValidIndex(op'.idx, Len(qs)) /\ op'.src = op'.idx) => qs2 = qs
                  /\ (ValidIndex(op'.src, Len(qs)) /\ ValidIndex(op'.idx, Len(qs))
                      /\ op'.src # op'.idx)
                     => /\ SameMultiset(qs2, qs)
                        /\ qs2[op'.idx + 1] = qs[op'.src + 1]
                        /\ Without(qs2, op'.idx) = Without(qs, op'.src) ]_vars

\* A title field was dropped on another row while its own index was in bounds.
C10_Witness ==
  /\ op.name = "handleTitleFieldDrop"
  /\ op.src # Null
  /\ op.src # op.idx
  /\ Renders
  /\ Len(titleFields) >= 3
  /\ draggedFieldIdx = Null

\* C11: a drop handled while no drag is in progress (draggedFieldIdx null for
\* a title-field row, draggedQuestion null for a question row) changes neither
\* titleFields nor pages.
C11_DropWithoutDragIgnored ==
  [][ /\ (op'.name = "handleTitleFieldDrop" /\ draggedFieldIdx = Null)
         => (titleFields' = titleFields /\ pages' = pages)
      /\ (op'.name = "handleQuestionDrop"
          /\ (draggedQuestion.pageId = Null \/ draggedQuestion.idx = Null))
         => (titleFields' = titleFields /\ pages' = pages) ]_vars

\* A title-field row other than the last handled a drop with no drag in progress.
C11_Witness ==
  /\ op.name = "handleTitleFieldDrop"
  /\ op.src = Null
  /\ op.idx < Len(titleFields) - 1
  /\ draggedFieldIdx = Null

\* C12: no reorder operation (step move or drop, on title fields, pages or
\* questions) alters membership: the collection keeps its length and its
\* multiset of elements, whatever drag index the drop reads.
C12_ReorderKeepsMembership ==
  [][ /\ op'.name \in {"moveTitleField", "handleTitleFieldDrop"}
         => SameMultiset(titleFields', titleFields)
      /\ op'.name = "movePage" => SameMultiset(pages', pages)
      /\ op'.name \in {"moveQuestion", "handleQuestionDrop"}
         => /\ Len(pages') = Len(pages)
            /\ \A p \in 1..Len(pages) :
                 SameMultiset(pages'[p].questions, pages[p].questions) ]_vars

QuestionOps ==
  {"addQuestion", "removeQuestion", "moveQuestion", "handleQuestionChange", "handleQuestionDrop"}

TitleFieldOps ==
  {"addTitleField", "removeTitleField", "moveTitleField", "handleTitleFieldChange",
   "handleTitleFieldDragStart", "handleTitleFieldDrop"}

\* C13: a question operation given page id P changes the question list of one
\* page at most, a page whose id is P, and changes neither the other pages nor
\* titleFields; a title-field operation leaves pages unchanged.
C13_MutationScopedToOneCollection ==
  [][ /\ op'.name \in QuestionOps
         => /\ titleFields' = titleFields
            /\ Len(pages') = Len(pages)
            /\ Cardinality({p \in 1..Len(pages) : pages'[p] # pages[p]}) <= 1
            /\ \A p \in 1..Len(pages) :
                 pages'[p] # pages[p]
                 => /\ pages[p].id = op'.pageId
                    /\ pages'[p].id = pages[p].id
                    /\ pages'[p].title = pages[p].title
      /\ op'.name \in TitleFieldOps => pages' = pages ]_vars

\* C14: a drop on a question row of a page other than the page the drag in
\* progress started on leaves every question list unchanged.
C14_CrossPageDropIgnored ==
  [][ (op'.name = "handleQuestionDrop"
       /\ draggedQuestion.pageId # Null
       /\ draggedQuestion.pageId # op'.pageId)
      => pages' = pages ]_vars

\* seq2 is seq with exactly one element appended.
Appended(seq2, seq) ==
  /\ Len(seq2) = Len(seq) + 1
  /\ SubSeq(seq2, 1, Len(seq)) = seq

\* C15: addTitleField, addPage and addQuestion append exactly one element to
\* the end of their collection and leave the existing elements and their order
\* unchanged; the page addPage creates holds exactly one question.
C15_InsertAppends ==
  [][ /\ op'.name = "addTitleField"
         => /\ Appended(titleFields', titleFields)
            /\ titleFields'[Len(titleFields')].id = op'.id
      /\ op'.name = "addPage"
         => /\ Appended(pages', pages)
            /\ pages'[Len(pages')].id = op'.id
            /\ Len(pages'[Len(pages')].questions) = 1
      /\ op'.name = "addQuestion"
         => /\ Len(pages') = Len(pages)
            /\ \A p \in PagesWithId(op'.pageId) :
                 /\ Appended(pages'[p].questions, pages[p].questions)
                 /\ pages'[p].questions[Len(pages'[p].questions)].id = op'.id ]_vars

\* addTitleField was called on a list of at least two fields.
C15_Witness ==
  /\ op.name = "addTitleField"
  /\ Len(titleFields) >= 3
  /\ titleFields[Len(titleFields)].id = op.id
  /\ titleFields[1].id # op.id

C17_EditKeepsIdsAndOrder ==
  [][ /\ op'.name = "handleTitleFieldChange"
         => /\ pages' = pages
            /\ Ids(titleFields') = Ids(titleFields)
            /\ op'.key \in {"label", "type"}
            /\ \A i \in 1..Len(titleFields) :
                 titleFields'[i] =
                   IF titleFields[i].id = op'.id
                   THEN [titleFields[i] EXCEPT ![op'.key] = op'.value]
                   ELSE titleFields[i]
      /\ op'.name = "handlePageTitleChange"
         => /\ titleFields' = titleFields
            /\ Ids(pages') = Ids(pages)
            /\ \A p \in 1..Len(pages) :
                 /\ pages'[p].questions = pages[p].questions
                 /\ pages'[p].title = IF pages[p].id = op'.id THEN op'.value ELSE pages[p].title
      /\ op'.name = "handleQuestionChange"
         => /\ titleFields' = titleFields
            /\ Ids(pages') = Ids(pages)
            /\ op'.key \in {"text", "type"}
            /\ \A p \in 1..Len(pages) :
                 /\ pages'[p].title = pages[p].title
                 /\ Ids(pages'[p].questions) = Ids(pages[p].questions)
                 /\ \A i \in 1..Len(pages[p].questions) :
                      pages'[p].questions[i] =
                        IF pages[p].id = op'.pageId /\ pages[p].questions[i].id = op'.id
                        THEN [pages[p].questions[i] EXCEPT ![op'.key] = op'.value]
                        ELSE pages[p].questions[i] ]_vars

\* The text of one of two questions of a page was edited, the other one kept
\* its text.
C17_Witness ==
  /\ op.name = "handleQuestionChange"
  /\ op.key = "text"
  /\ \E p \in PagesWithId(op.pageId) :
       /\ Len(pages[p].questions) = 2
       /\ \E i, j \in 1..2 :
            /\ pages[p].questions[i].id = op.id
            /\ pages[p].questions[i].text = op.value
            /\ pages[p].questions[j].text # op.value

UppercaseLetters ==
  {"A", "B", "C", "D", "E", "F", "G", "H", "I", "J", "K", "L", "M",
   "N", "O", "P", "Q", "R", "S", "T", "U", "V", "W", "X", "Y", "Z"}

LowercaseLetters ==
  {"a", "b", "c", "d", "e", "f", "g", "h", "i", "j", "k", "l", "m",
   "n", "o", "p", "q", "r", "s", "t", "u", "v", "w", "x", "y", "z"}

Contains(str, chars) == \E k \in 1..Len(str) : str[k] \in chars

\* C18: when a submission is accepted (the account is announced as created)
\* the password has at least 8 characters and contains an uppercase letter, a
\* lowercase letter and a digit.
C18_AcceptedPasswordMeetsRequirements ==
  alert # NoAlert
  => /\ Len(form.password) >= 8
     /\ Contains(form.password, UppercaseLetters)
     /\ Contains(form.password, LowercaseLetters)
     /\ Contains(form.password, DigitChars)

\* C19: every drop handled by a title-field row leaves draggedFieldIdx null,
\* and every drop handled by a question row leaves draggedQuestion
\* {pageId: null, idx: null}, the drop on the dragged row itself included.
C19_DropEndsDrag ==
  [][ /\ op'.name = "handleTitleFieldDrop" => draggedFieldIdx' = Null
      /\ op'.name = "handleQuestionDrop" => draggedQuestion' = NoDraggedQuestion ]_vars

\* C20: a drop on a title-field row right after a dragstart on a question row
\* does not reorder the title fields, and a drop on a question row right after
\* a dragstart on a title-field row does not reorder the questions: the state
\* of an earlier, abandoned drag is not applied.
C20_DropAppliesCurrentDragOnly ==
  [][ /\ (op.name = "handleQuestionDragStart" /\ op'.name = "handleTitleFieldDrop")
         => titleFields' = titleFields
      /\ (op.name = "handleTitleFieldDragStart" /\ op'.name = "handleQuestionDrop")
         => pages' = pages ]_vars

\* C21: once every pending FileReader load has completed, templateImage holds
\* the data URL of the file selected last (the file the input holds), whatever
\* the order in which the loads completed.
C21_LastSelectionWins ==
  (readers = <<>> /\ imageInput # NoFile) => templateImage = DataURL(imageInput)

\* C22: after any sequence of schedule creations and status updates the
\* schedule at 0-based position k has id k + 1, so the ids are pairwise
\* distinct.
C22_ScheduleIdsFollowPositions ==
  /\ \A k \in 0..(Len(schedules) - 1) : schedules[k + 1].id = k + 1
  /\ PairwiseDistinct(Ids(schedules))

\* A schedule was created and its status then updated.
C22_Witness ==
  /\ op.name = "updateScheduleStatus"
  /\ Len(schedules) > Len(InitSchedules)
  /\ op.id = Len(schedules)
  /\ schedules[Len(schedules)].status = op.value

\* C23: handleCreateSchedule appends exactly one schedule, of status
\* scheduled and carrying the fields of the draft, leaves the existing
\* schedules unchanged, resets the draft to priority medium with every other
\* field empty, and closes the form; updateScheduleStatus(id, s) sets the
\* status of the schedules with that id to s and changes nothing else, neither
\* the number nor the order of the schedules.
C23_CreateAppendsUpdateSetsStatus ==
  [][ /\ op'.name = "handleCreateSchedule"
         => /\ Appended(schedules', schedules)
            /\ LET created == schedules'[Len(schedules')]
               IN  /\ created.status = "scheduled"
                   /\ \A key \in DOMAIN newSchedule : created[key] = newSchedule[key]
            /\ newSchedule'.priority = "medium"
            /\ \A key \in DOMAIN newSchedule' \ {"priority"} : newSchedule'[key] = ""
            /\ showCreateForm' = FALSE
      /\ op'.name = "updateScheduleStatus"
         => /\ Len(schedules') = Len(schedules)
            /\ \A i \in 1..Len(schedules) :
                 schedules'[i] =
                   IF schedules[i].id = op'.id
                   THEN [schedules[i] EXCEPT !.status = op'.value]
                   ELSE schedules[i] ]_vars

\* A schedule was created from a draft with a priority and notes of its own.
C23_Witness ==
  /\ op.name = "handleCreateSchedule"
  /\ Len(schedules) = op.id
  /\ schedules[op.id].priority = "high"
  /\ schedules[op.id].notes = "n"
  /\ ~showCreateForm

\* The email has the shape local@domain.tld: no whitespace, exactly one @ with
\* something before it, and after it a dot with something on both sides.
LooksLikeEmail(str) ==
  /\ ~Contains(str, Whitespace)
  /\ Cardinality({k \in 1..Len(str) : str[k] = "@"}) = 1
  /\ LET at == CHOOSE k \in 1..Len(str) : str[k] = "@"
     IN  /\ at > 1
         /\ \E dot \in (at + 2)..(Len(str) - 1) : str[dot] = "."

\* The fields of a form that do not meet the rules of the sign-up form.
FailingFields(f) ==
  {k \in {"email"} : ~LooksLikeEmail(f.email)}
  \cup {k \in {"firstName", "lastName", "organization", "location"} : Len(f[k]) = 0}
  \cup {k \in {"phone"} : ~(Len(f.phone) \in 6..15 /\ \A i \in 1..Len(f.phone) : f.phone[i] \in DigitChars)}
  \cup {k \in {"password"} : Len(f.password) < 8}
  \cup {k \in {"terms"} : f.terms = FALSE}

====
